---- MODULE Spec2Model ----
(***************************************************************************)
(* EncodingJob (src/src/services/encoding-job.ts): one video encoding job  *)
(* driving an FFmpeg instance, with cancellation, a safety timeout,        *)
(* progress inference from log lines and a pass-through fallback.          *)
(*                                                                         *)
(* Scheduling model.  The job runs on the JavaScript event loop: a task    *)
(* (an engine answer, a timer, a call made by the user) runs to completion *)
(* and is followed by every promise continuation it has made runnable.     *)
(* Each action below is therefore one task together with the continuations *)
(* it triggers, up to the next await on the engine or a timer.  The one    *)
(* exception is a user call that settles the main promise (cancel() and    *)
(* destroy() through the abort listener): the caller may make further      *)
(* calls in the same task before the continuation runs, so the             *)
(* continuation is the action Continuation, and no engine answer or timer  *)
(* is taken while it is runnable.  Callbacks are not re-entrant: they do   *)
(* not call back into the job.                                             *)
(*                                                                         *)
(* The engine is external: an awaited call resolves, rejects or stays      *)
(* unanswered, also after terminateInstance (which is best effort).        *)
(*                                                                         *)
(* Units: progress ratios are in millionths (Unit = 1.0), durations in     *)
(* hundredths of a second, timeouts in milliseconds (rounded down).        *)
(*                                                                         *)
(* ProcessingJobFactory (src/src/services/processing-job-factory.ts), the  *)
(* registry of the jobs it created, is modelled next to the job: its       *)
(* specification FactorySpec follows several jobs through the operations   *)
(* the factory can observe.                                                *)
(*                                                                         *)
(* AudioMixerService (src/src/services/audio-mixer.service.ts) builds one  *)
(* Web Audio graph per mix request.  Its methods are synchronous; what the *)
(* browser does on its own is a step of its own: a new AudioContext is     *)
(* "suspended" and starts running later, close() returns a promise and     *)
(* the context is closed when the browser gets to it, and a callback       *)
(* passed to requestAnimationFrame runs once, in a later task.  Gains are  *)
(* in hundredths, products rounded down.                                   *)
(***************************************************************************)
EXTENDS Integers, Sequences, FiniteSets, TLC

\* ---------------------------------------------------------------- bounds
MaxRuns == 2

MaxCallbacks == 2

MaxJobs == 2

\* audio contexts the mixer creates
MaxGraphs == 2

\* frames of one monitoring loop that are followed through the mixer's
\* life cycle
MaxFrames == 2

\* ------------------------------------------------------ program constants
NoInstance == 0
\* this.activeJob = null of VideoProcessorService
NoJob == 0

Unit == 1000000

InitialProgress == 50000

StagedBase == 100000

StagedSpan == 900000

HeuristicSpan == 890000

ProgressCap == 990000

HeuristicFrames == 300

TrustedFrames == 10

DefaultTotalFrames == 300

DefaultFps == 30

DefaultSafetyTimeoutMs == 180000

BaseTimeout == 180000

MaxTimeout == 600000

FullHdPixels == 2073600

MaxComplexity == 4

NaFramesBase == 1800

InitError == "Failed to initialize FFmpeg"

CancelledError == "Operation cancelled"

TargetType == "video/mp4"

Runs == 1..MaxRuns

\* a null reference of the mixer
NoNode == 0

\* gains are kept in hundredths
MicGainInitial == 280

SystemGainInitial == 150

MicGainCeiling == 400

SystemGainCeiling == 250

SystemGainFloor == 50

\* a reading below LowLevel is too quiet, one above HighLevel too loud
LowLevel == 10

HighLevel == 100

\* the levels are acted upon on every 50th frame of a loop
SampleEvery == 50

Graphs == 1..MaxGraphs

Min(a, b) == IF a < b THEN a ELSE b

Max(a, b) == IF a > b THEN a ELSE b

\* Math.round of the non-negative rational n/d
Round(n, d) == (2 * n + d) \div (2 * d)

RECURSIVE Gcd(_, _)
Gcd(a, b) == IF b = 0 THEN a ELSE Gcd(b, a % b)

\* The rational a*b/d as a pair <<numerator, denominator>>, with b/d reduced
\* first so that the product stays within the checker's 32-bit integers; the
\* value is that of a*b/d.
Scaled(a, b, d) == <<a * (b \div Gcd(b, d)), d \div Gcd(b, d)>>

\* ------------------------------------------------------------------ state
VARIABLES
  ffmpeg,               \* this.ffmpeg: NoInstance, or the run whose instance it is
  currentFrame,
  totalFrames,
  estimatedDuration,    \* hundredths of a second
  safetyTimeoutMs,
  isCancelled,
  isProcessing,
  aborted,              \* this.abortController.signal.aborted
  progressCallback,     \* TRUE while a callback is registered
  cancellationCallback,
  pc,                   \* the await encode() is suspended at, "idle" if none
  mainPromise,          \* the promise of transcodeToMp4's main invocation
  chunks,               \* the argument of the run in flight
  data,                 \* what readFile returned to the run in flight
  run,                  \* number of runs started on this job
  checkCancellation,    \* runs whose 20 ms cancellation poll is armed
  safetyTimeout,        \* runs whose safety timer is armed
  execPending,          \* runs whose main exec() the engine has not answered
  termCount,            \* terminateInstance calls per engine instance
  \* what the caller has observed of the current run
  cbCount,              \* cancellation callback invocations
  cause,                \* who first requested cancellation
  lastRatio,            \* last ratio passed to the progress callback, 0 if none
  lateProgress,         \* a progress callback came after a cancellation callback
  ones,                 \* number of times ratio 1.0 was reported
  result,               \* how encode() settled
  timedOut,             \* the run's safety timer fired during its main exec
  engineFailed,         \* an engine call of the run rejected
  preFailed,            \* the pre-analysis exec of the run rejected
  busyRejected,         \* an encode() call was rejected as already processing
  destroyed,            \* destroy() has been called on the job
  destroyedMid,         \* destroy() was called while the current run was Processing
  \* ProcessingJobFactory and the jobs it created, each job seen through its
  \* public surface (encode, cancel, the cancellation callback)
  created,              \* the jobs createEncodingJob has returned
  activeJobs,           \* this.activeJobs
  processing,           \* the jobs whose isProcessing is set
  cancelled,            \* the jobs whose isCancelled is set
  throwing,             \* the jobs whose onCancelled callback throws
  removalTimers,        \* per job, the pending setTimeout(0) of the callback
  \* what has been observed of the factory
  ended,                \* the jobs whose last run has ended
  removals,             \* per job, how often it was taken out of activeJobs
  cancelCalls,          \* the jobs the last cancelAllJobs() called cancel() on
  \* AudioMixerService: a reference is NoNode or the number of the graph
  \* (the audio context) the object belongs to
  audioContext,
  mixedDestination,
  analyzerNode,
  systemSource,
  micSource,
  systemGain,
  micGain,
  \* the Web Audio objects
  ctxState,             \* per graph, AudioContext.state; "closing" once
                        \* close() was called
  nodes,                \* the nodes created in the latest context
  connections,          \* their connections not undone, <<from, to>>
  micGainValue,         \* gain.value of its microphone GainNode, 0 if none
  systemGainValue,      \* gain.value of its system-audio GainNode, 0 if none
  \* the monitoring loops, named after the graph monitorLevels() ran for
  scheduled,            \* loops with a requestAnimationFrame callback pending
  frameCount,           \* per loop, its frameCount modulo SampleEvery
  \* what the caller of the mixer has observed
  warned,               \* the last createMixedAudioStream found no source
  returned,             \* what it returned: NoNode (null) or the graph of
                        \* the stream
  raised,               \* a call on the mixer threw
  \* VideoProcessorService, whose jobFactory is the factory above
  activeJob,            \* this.activeJob: NoJob, or the job it refers to
  lastBlob              \* how the last createMP4Blob call to settle settled

vars == <<ffmpeg, currentFrame, totalFrames, estimatedDuration, safetyTimeoutMs,
          isCancelled, isProcessing, aborted, progressCallback,
          cancellationCallback, pc, mainPromise, chunks, data, run,
          checkCancellation, safetyTimeout, execPending, termCount,
          cbCount, cause, lastRatio, lateProgress, ones, result, timedOut,
          engineFailed, preFailed, busyRejected, destroyed, destroyedMid,
          created, activeJobs, processing, cancelled, throwing, removalTimers,
          ended, removals, cancelCalls,
          audioContext, mixedDestination, analyzerNode, systemSource,
          micSource, systemGain, micGain, ctxState, nodes, connections,
          micGainValue, systemGainValue, scheduled, frameCount,
          warned, returned, raised, activeJob, lastBlob>>

\* the video processor's own fields
processorVars == <<activeJob, lastBlob>>

\* the mixer and its graphs
mixerVars == <<audioContext, mixedDestination, analyzerNode, systemSource,
               micSource, systemGain, micGain, ctxState, nodes, connections,
               micGainValue, systemGainValue, scheduled, frameCount,
               warned, returned, raised>>

\* the factory and its jobs
factoryVars == <<created, activeJobs, processing, cancelled, throwing,
                 removalTimers, ended, removals, cancelCalls>>

\* the job under study of the other specifications
encodingVars ==
  <<ffmpeg, currentFrame, totalFrames, estimatedDuration, safetyTimeoutMs,
    isCancelled, isProcessing, aborted, progressCallback,
    cancellationCallback, pc, mainPromise, chunks, data, run,
    checkCancellation, safetyTimeout, execPending, termCount,
    cbCount, cause, lastRatio, lateProgress, ones, result, timedOut,
    engineFailed, preFailed, busyRejected, destroyed, destroyedMid>>

\* The fields of the job object and of its run in flight, without what the
\* caller observed.
jobVars == <<ffmpeg, currentFrame, totalFrames, estimatedDuration,
             safetyTimeoutMs, isCancelled, isProcessing, aborted,
             progressCallback, cancellationCallback, pc, mainPromise, chunks,
             data, run, checkCancellation, safetyTimeout, execPending, termCount>>

Cur ==
  [ffmpeg |-> ffmpeg, currentFrame |-> currentFrame, totalFrames |-> totalFrames,
   estimatedDuration |-> estimatedDuration, safetyTimeoutMs |-> safetyTimeoutMs,
   isCancelled |-> isCancelled, isProcessing |-> isProcessing,
   aborted |-> aborted, progressCallback |-> progressCallback,
   cancellationCallback |-> cancellationCallback, pc |-> pc,
   mainPromise |-> mainPromise, chunks |-> chunks, data |-> data,
   run |-> run,
   checkCancellation |-> checkCancellation, safetyTimeout |-> safetyTimeout,
   execPending |-> execPending, termCount |-> termCount, cbCount |-> cbCount,
   cause |-> cause, lastRatio |-> lastRatio, lateProgress |-> lateProgress,
   ones |-> ones, result |-> result, timedOut |-> timedOut,
   engineFailed |-> engineFailed, preFailed |-> preFailed,
   busyRejected |-> busyRejected, destroyed |-> destroyed,
   destroyedMid |-> destroyedMid]

Apply(s) ==
  /\ ffmpeg' = s.ffmpeg
  /\ currentFrame' = s.currentFrame
  /\ totalFrames' = s.totalFrames
  /\ estimatedDuration' = s.estimatedDuration
  /\ safetyTimeoutMs' = s.safetyTimeoutMs
  /\ isCancelled' = s.isCancelled
  /\ isProcessing' = s.isProcessing
  /\ aborted' = s.aborted
  /\ progressCallback' = s.progressCallback
  /\ cancellationCallback' = s.cancellationCallback
  /\ pc' = s.pc
  /\ mainPromise' = s.mainPromise
  /\ chunks' = s.chunks
  /\ data' = s.data
  /\ run' = s.run
  /\ checkCancellation' = s.checkCancellation
  /\ safetyTimeout' = s.safetyTimeout
  /\ execPending' = s.execPending
  /\ termCount' = s.termCount
  /\ cbCount' = s.cbCount
  /\ cause' = s.cause
  /\ lastRatio' = s.lastRatio
  /\ lateProgress' = s.lateProgress
  /\ ones' = s.ones
  /\ result' = s.result
  /\ timedOut' = s.timedOut
  /\ engineFailed' = s.engineFailed
  /\ preFailed' = s.preFailed
  /\ busyRejected' = s.busyRejected
  /\ destroyed' = s.destroyed
  /\ destroyedMid' = s.destroyedMid
  /\ UNCHANGED <<factoryVars, mixerVars, processorVars>>

\* ----------------------------------------------------------------- inputs
\* Segments are byte sequences; a Blob is a MIME type and the bytes of its
\* parts, concatenated in order.
RECURSIVE Concat(_)
Concat(parts) ==
  IF parts = <<>> THEN <<>> ELSE Head(parts) \o Concat(Tail(parts))

Blob(parts, type) == [type |-> type, bytes |-> Concat(parts)]

InputChunks == {<<<<1>>, <<2, 3>>>>, <<<<2, 3>>, <<1>>>>}

\* What the engine can leave in output.mp4
EngineOutputs == {<<7, 8>>}

NoBytes == <<>>

\* A diagnostic line, as the regular expressions of extractTimeFromLog see
\* it: frame is the capture of /frame=\s*(\d+)/, duration the parts of the
\* capture of /Duration:\s*([\d:.]+)/ split at ':' (the last in hundredths),
\* fps the capture of /(\d+(?:\.\d+)?)\s*fps/, video and na say whether the
\* line contains 'Video:' and 'Duration: N/A', res is the capture of
\* /(\d+)x(\d+)/.  None and <<>> stand for no match.
None == -1

Line(frame, duration, fps, video, na, res) ==
  [frame |-> frame, duration |-> duration, fps |-> fps, video |-> video,
   na |-> na, res |-> res]

\* "frame=   99 fps= 25 q=28.0 ...": the fps pattern captures the digits in
\* front of "fps", which are the frame number.
FrameLine(n) == Line(n, <<>>, n, FALSE, FALSE, <<>>)

\* "  Duration: 00:00:04.00, start: 0.000000, bitrate: 1 kb/s"
DurationLine == Line(None, <<0, 0, 400>>, None, FALSE, FALSE, <<>>)

\* "  Stream #0:0: Video: vp8, yuv420p, 640x480, 25 fps"
StreamLine == Line(None, <<>>, 25, TRUE, FALSE, <<640, 480>>)

\* "Duration: N/A ... Video: vp9, 3840x2160, 30 fps"
NaLine == Line(None, <<>>, 30, TRUE, TRUE, <<3840, 2160>>)

\* "  Duration: 00:01:40.00, start: 0.000000, bitrate: 1 kb/s"
LongDurationLine == Line(None, <<0, 1, 4000>>, None, FALSE, FALSE, <<>>)

\* "  Stream #0:0: Video: h264, yuv420p, 1280x720, 30 fps"
Stream30Line == Line(None, <<>>, 30, TRUE, FALSE, <<1280, 720>>)

\* "Duration: N/A ... Video: vp8, 2560x1440, 30 fps"
QhdNaLine == Line(None, <<>>, 30, TRUE, TRUE, <<2560, 1440>>)

\* "Duration: N/A ... Video: vp8, 640x480, 25 fps"
LowResNaLine == Line(None, <<>>, 25, TRUE, TRUE, <<640, 480>>)

LogLines ==
  {FrameLine(99), FrameLine(100), FrameLine(300), DurationLine,
   LongDurationLine, StreamLine,
   Stream30Line, NaLine, QhdNaLine, LowResNaLine}

\* the lines explored together with every interleaving of the life cycle
LifecycleLines == {FrameLine(99), FrameLine(100)}

\* ------------------------------------------------------- ProgressEstimator
\* A faulty adjustSafetyTimeout: the ten-minute cap is missing.
adjustSafetyTimeoutUncapped(s, pixels) ==
  [s EXCEPT !.safetyTimeoutMs =
     LET q == Scaled(pixels, BaseTimeout, FullHdPixels) IN q[1] \div q[2]]

adjustSafetyTimeout(s, pixels) ==
  [s EXCEPT !.safetyTimeoutMs =
     LET q == Scaled(pixels, BaseTimeout, FullHdPixels)
     IN Min(q[1] \div q[2], MaxTimeout)]

\* A faulty extractTimeFromLog: the video stream line makes the estimate with
\* the default frame rate instead of the rate it reports.
extractTimeFromLogDefaultFps(s, m) ==
  LET s1 == IF m.frame # None THEN [s EXCEPT !.currentFrame = m.frame] ELSE s
      dur == (m.duration[1] * 3600 + m.duration[2] * 60) * 100 + m.duration[3]
      s2 == IF m.duration # <<>> /\ s1.estimatedDuration = 0
              /\ Len(m.duration) = 3
            THEN [s1 EXCEPT
                    !.estimatedDuration = dur,
                    !.totalFrames =
                      IF s1.totalFrames <= 0
                      THEN Round(dur * DefaultFps, 100) ELSE @]
            ELSE s1
      s3 == IF m.fps # None /\ m.fps > 0 /\ s2.estimatedDuration # 0
              /\ s2.totalFrames <= 0
            THEN [s2 EXCEPT
                    !.totalFrames = Round(s2.estimatedDuration * m.fps, 100)]
            ELSE s2
      s4 == IF m.video /\ m.fps # None /\ m.fps > 0
              /\ s3.estimatedDuration # 0
            THEN [s3 EXCEPT
                    !.totalFrames =
                      Round(s3.estimatedDuration * DefaultFps, 100)]
            ELSE s3
      \* complexityFactor = pixels / FullHdPixels, capped at MaxComplexity
      pixels == Min(m.res[1] * m.res[2], MaxComplexity * FullHdPixels)
      frames == Scaled(pixels, NaFramesBase, FullHdPixels)
      s5 == IF m.na /\ m.video /\ m.res # <<>>
            THEN adjustSafetyTimeout(
                   [s4 EXCEPT !.totalFrames =
                      Max(@, Round(frames[1], frames[2]))],
                   pixels)
            ELSE s4
  IN s5

extractTimeFromLog(s, m) ==
  LET s1 == IF m.frame # None THEN [s EXCEPT !.currentFrame = m.frame] ELSE s
      dur == (m.duration[1] * 3600 + m.duration[2] * 60) * 100 + m.duration[3]
      s2 == IF m.duration # <<>> /\ s1.estimatedDuration = 0
              /\ Len(m.duration) = 3
            THEN [s1 EXCEPT
                    !.estimatedDuration = dur,
                    !.totalFrames =
                      IF s1.totalFrames <= 0
                      THEN Round(dur * DefaultFps, 100) ELSE @]
            ELSE s1
      s3 == IF m.fps # None /\ m.fps > 0 /\ s2.estimatedDuration # 0
              /\ s2.totalFrames <= 0
            THEN [s2 EXCEPT
                    !.totalFrames = Round(s2.estimatedDuration * m.fps, 100)]
            ELSE s2
      s4 == IF m.video /\ m.fps # None /\ m.fps > 0
              /\ s3.estimatedDuration # 0
            THEN [s3 EXCEPT
                    !.totalFrames = Round(s3.estimatedDuration * m.fps, 100)]
            ELSE s3
      \* complexityFactor = pixels / FullHdPixels, capped at MaxComplexity
      pixels == Min(m.res[1] * m.res[2], MaxComplexity * FullHdPixels)
      frames == Scaled(pixels, NaFramesBase, FullHdPixels)
      s5 == IF m.na /\ m.video /\ m.res # <<>>
            THEN adjustSafetyTimeout(
                   [s4 EXCEPT !.totalFrames =
                      Max(@, Round(frames[1], frames[2]))],
                   pixels)
            ELSE s4
  IN s5

\* A faulty calculateProgress(): the staged ratio is not capped.
calculateProgressUncapped(s) ==
  IF s.currentFrame = 0 THEN InitialProgress
  ELSE IF s.totalFrames > s.currentFrame /\ s.totalFrames > TrustedFrames
  THEN StagedBase + (StagedSpan * s.currentFrame) \div s.totalFrames
  ELSE Min(StagedBase
             + (HeuristicSpan * Min(s.currentFrame, HeuristicFrames))
                 \div HeuristicFrames,
           ProgressCap)

calculateProgress(s) ==
  IF s.currentFrame = 0 THEN InitialProgress
  ELSE IF s.totalFrames > s.currentFrame /\ s.totalFrames > TrustedFrames
  THEN Min(StagedBase + (StagedSpan * s.currentFrame) \div s.totalFrames,
           ProgressCap)
  ELSE Min(StagedBase
             + (HeuristicSpan * Min(s.currentFrame, HeuristicFrames))
                 \div HeuristicFrames,
           ProgressCap)

\* -------------------------------------------------------------- EncodingJob
NoResult ==
  [kind |-> "none", error |-> "", type |-> "", bytes |-> <<>>,
   outcome |-> "none"]

Rejected(error, outcome) ==
  [kind |-> "rejected", error |-> error, type |-> "", bytes |-> <<>>,
   outcome |-> outcome]

Resolved(blob, outcome) ==
  [kind |-> "resolved", error |-> "", type |-> blob.type,
   bytes |-> blob.bytes, outcome |-> outcome]

\* this.progressCallback(ratio), where the caller checked it is registered
reportProgress(s, ratio) ==
  [s EXCEPT !.lastRatio = ratio,
            !.lateProgress = @ \/ s.cbCount > 0,
            !.ones = IF ratio = Unit THEN @ + 1 ELSE @]

\* this.cancellationCallback(), where the caller checked it is registered
invokeCancellation(s) == [s EXCEPT !.cbCount = @ + 1]

terminateFFmpeg(s) ==
  IF s.ffmpeg # NoInstance
  THEN [s EXCEPT !.termCount[s.ffmpeg] = @ + 1, !.ffmpeg = NoInstance]
  ELSE s

\* abortController.abort(): the first abort dispatches the event to the
\* listener of the main promise, which rejects it; later aborts dispatch
\* nothing, and so does the first abort for a listener added after it.
abort(s) ==
  [s EXCEPT !.aborted = TRUE,
            !.mainPromise =
              IF ~s.aborted /\ @ = "pending" THEN "rejected" ELSE @]

\* A faulty cancel(): the guard on isProcessing is missing.
cancelUnguarded(s, who) ==
  LET s1 == [s EXCEPT !.isCancelled = TRUE,
                      !.cause = IF @ = "none" THEN who ELSE @]
      s2 == terminateFFmpeg(abort(s1))
  IN IF s2.cancellationCallback THEN invokeCancellation(s2) ELSE s2

cancel(s, who) ==
  IF ~s.isProcessing THEN s
  ELSE LET s1 == [s EXCEPT !.isCancelled = TRUE,
                           !.cause = IF @ = "none" THEN who ELSE @]
           s2 == terminateFFmpeg(abort(s1))
       IN IF s2.cancellationCallback THEN invokeCancellation(s2) ELSE s2

\* the finally block of encode()
encodeFinally(s) ==
  [s EXCEPT !.isProcessing = FALSE, !.pc = "idle", !.mainPromise = "none"]

\* the catch block of encode(): the error is rethrown to the caller
encodeCatch(s, error, outcome) ==
  LET s1 == IF s.isCancelled /\ s.cancellationCallback
            THEN invokeCancellation(s) ELSE s
  IN encodeFinally([s1 EXCEPT !.result = Rejected(error, outcome)])

\* encode() after transcodeToMp4 returned blob
encodeReturn(s, blob, outcome) ==
  LET s1 == IF s.progressCallback /\ ~s.isCancelled
            THEN reportProgress(s, Unit) ELSE s
  IN encodeFinally([s1 EXCEPT !.result = Resolved(blob, outcome)])

\* A faulty catch block: the fallback keeps the recording's own MIME type.
transcodeCatchKeepsType(s) ==
  IF s.isCancelled
  THEN encodeCatch(s, CancelledError, "Cancelled")
  ELSE encodeReturn(s, Blob(s.chunks, "video/webm"), "Fallback")

\* A faulty catch block: the fallback is returned without looking at
\* isCancelled.
transcodeCatchIgnoresCancel(s) ==
  encodeReturn(s, Blob(s.chunks, TargetType), "Fallback")

\* A faulty catch block: the engine's error is rethrown to the caller.
transcodeCatchRethrows(s) ==
  IF s.isCancelled
  THEN encodeCatch(s, CancelledError, "Cancelled")
  ELSE encodeCatch(s, "Engine error", "Failed")

\* the catch block of transcodeToMp4, and encode() after it
transcodeCatch(s) ==
  IF s.isCancelled
  THEN encodeCatch(s, CancelledError, "Cancelled")
  ELSE encodeReturn(s, Blob(s.chunks, TargetType), "Fallback")

\* the executor of the main promise of transcodeToMp4
startMain(s) ==
  IF s.isCancelled THEN transcodeCatch(s)
  ELSE IF s.ffmpeg # NoInstance
  THEN [s EXCEPT !.pc = "exec", !.mainPromise = "pending",
                 !.checkCancellation = @ \cup {s.run},
                 !.safetyTimeout = @ \cup {s.run},
                 !.execPending = @ \cup {s.run}]
  ELSE transcodeCatch(s)

\* an awaited engine call rejected: the await throws into the catch block
engineRejected(s) == transcodeCatch([s EXCEPT !.engineFailed = TRUE])

\* A continuation of the run is runnable: no other task is taken before it.
MicrotaskPending == mainPromise = "rejected"

\* the continuation of a main promise that a listener rejected in this task
drain(s) == IF s.mainPromise = "rejected" THEN transcodeCatch(s) ELSE s

Init ==
  /\ ffmpeg = NoInstance
  /\ currentFrame = 0
  /\ totalFrames = 0
  /\ estimatedDuration = 0
  /\ safetyTimeoutMs = DefaultSafetyTimeoutMs
  /\ isCancelled = FALSE
  /\ isProcessing = FALSE
  /\ aborted = FALSE
  /\ progressCallback = TRUE
  /\ cancellationCallback = TRUE
  /\ pc = "idle"
  /\ mainPromise = "none"
  /\ chunks = <<>>
  /\ data = NoBytes
  /\ run = 0
  /\ checkCancellation = {}
  /\ safetyTimeout = {}
  /\ execPending = {}
  /\ termCount = [k \in Runs |-> 0]
  /\ cbCount = 0
  /\ cause = "none"
  /\ lastRatio = 0
  /\ lateProgress = FALSE
  /\ ones = 0
  /\ result = NoResult
  /\ timedOut = FALSE
  /\ engineFailed = FALSE
  /\ preFailed = FALSE
  /\ busyRejected = FALSE
  /\ destroyed = FALSE
  /\ destroyedMid = FALSE
  /\ created = {}
  /\ activeJobs = {}
  /\ processing = {}
  /\ cancelled = {}
  /\ throwing = {}
  /\ removalTimers = [j \in 1..MaxJobs |-> 0]
  /\ ended = {}
  /\ removals = [j \in 1..MaxJobs |-> 0]
  /\ cancelCalls = {}
  /\ audioContext = NoNode
  /\ mixedDestination = NoNode
  /\ analyzerNode = NoNode
  /\ systemSource = NoNode
  /\ micSource = NoNode
  /\ systemGain = NoNode
  /\ micGain = NoNode
  /\ ctxState = [g \in 1..MaxGraphs |-> "none"]
  /\ nodes = {}
  /\ connections = {}
  /\ micGainValue = 0
  /\ systemGainValue = 0
  /\ scheduled = {}
  /\ frameCount = [g \in 1..MaxGraphs |-> 0]
  /\ warned = FALSE
  /\ returned = None
  /\ raised = FALSE
  /\ activeJob = NoJob
  /\ lastBlob = "none"

\* A faulty encode(): the flags are assigned before the busy check.
encodeAssignsFirst(s, c) ==
  IF s.isProcessing
  THEN [s EXCEPT !.isCancelled = FALSE, !.busyRejected = TRUE]
  ELSE [s EXCEPT !.isProcessing = TRUE, !.isCancelled = FALSE,
                 !.pc = "init", !.run = @ + 1, !.chunks = c,
                 !.data = NoBytes,
                 !.cbCount = 0, !.cause = "none", !.lastRatio = 0,
                 !.lateProgress = FALSE, !.ones = 0, !.result = NoResult,
                 !.timedOut = FALSE, !.engineFailed = FALSE,
                 !.preFailed = FALSE,
                 !.busyRejected = FALSE, !.destroyedMid = FALSE]

\* encode(c) up to its first await.  A call on a busy job throws before any
\* assignment; the caller sees the rejection (busyRejected).
encode(s, c) ==
  IF s.isProcessing
  THEN [s EXCEPT !.busyRejected = TRUE]
  ELSE [s EXCEPT !.isProcessing = TRUE, !.isCancelled = FALSE,
                 !.pc = "init", !.run = @ + 1, !.chunks = c,
                 !.data = NoBytes,
                 !.cbCount = 0, !.cause = "none", !.lastRatio = 0,
                 !.lateProgress = FALSE, !.ones = 0, !.result = NoResult,
                 !.timedOut = FALSE, !.engineFailed = FALSE,
                 !.preFailed = FALSE,
                 !.busyRejected = FALSE, !.destroyedMid = FALSE]

Encode(c) ==
  /\ isProcessing \/ run < MaxRuns
  /\ Apply(encode(Cur, c))

\* createInstance() resolved: handlers are registered, the instance is stored,
\* the initial progress is reported and transcodeToMp4 runs to its first await.
initResolved(s) ==
  LET s1 == [s EXCEPT !.ffmpeg = s.run]
      s2 == IF s1.progressCallback
            THEN reportProgress(s1, InitialProgress) ELSE s1
  IN IF s2.isCancelled THEN transcodeCatch(s2) ELSE [s2 EXCEPT !.pc = "blob"]

InitResolve ==
  /\ pc = "init"
  /\ Apply(initResolved(Cur))

InitReject ==
  /\ pc = "init"
  /\ Apply(encodeCatch(Cur, InitError, "InitError"))

\* the Blob's arrayBuffer() resolved; writeFile is called on this.ffmpeg
BlobRead ==
  /\ pc = "blob"
  /\ Apply(IF ffmpeg = NoInstance THEN transcodeCatch(Cur)
           ELSE [Cur EXCEPT !.pc = "write"])

\* writeFile resolved; preAnalyzeVideo starts its exec
WriteResolve ==
  /\ pc = "write"
  /\ Apply(IF ffmpeg = NoInstance THEN transcodeCatch(Cur)
           ELSE [Cur EXCEPT !.pc = "pre"])

WriteReject ==
  /\ pc = "write"
  /\ Apply(engineRejected(Cur))

\* the rest of preAnalyzeVideo once its exec settled either way
preAnalyzeVideo(s) ==
  IF s.totalFrames <= 0 THEN [s EXCEPT !.totalFrames = DefaultTotalFrames]
  ELSE s

\* The pre-analysis exec resolved, or it rejected (failed) and the catch
\* handler attached to it swallowed the error; the main promise is created.
PreAnalysisAnswer(failed) ==
  /\ pc = "pre"
  /\ Apply(startMain(preAnalyzeVideo([Cur EXCEPT !.preFailed = failed])))

\* the then/catch handlers of the main exec of run k clear its timers
clearTimers(s, k) ==
  [s EXCEPT !.checkCancellation = @ \ {k}, !.safetyTimeout = @ \ {k},
            !.execPending = @ \ {k}]

\* run k's main promise has not been settled
Unsettled(s, k) == k = s.run /\ s.pc = "exec" /\ s.mainPromise = "pending"

execResolved(s, k) ==
  LET s1 == clearTimers(s, k)
  IN IF ~Unsettled(s, k) THEN s1
     ELSE IF s1.isCancelled \/ s1.ffmpeg = NoInstance THEN transcodeCatch(s1)
     ELSE [s1 EXCEPT !.pc = "read", !.mainPromise = "none"]

ExecResolve(k) ==
  /\ k \in execPending
  /\ ~MicrotaskPending
  /\ Apply(execResolved(Cur, k))

execRejected(s, k) ==
  LET s1 == clearTimers(s, k)
  IN IF Unsettled(s, k) THEN engineRejected(s1) ELSE s1

ExecReject(k) ==
  /\ k \in execPending
  /\ ~MicrotaskPending
  /\ Apply(execRejected(Cur, k))

\* the setInterval callback of run k, which acts once isCancelled is seen
checkCancellationFired(s, k) ==
  LET s1 == terminateFFmpeg([s EXCEPT !.checkCancellation = @ \ {k}])
  IN IF Unsettled(s, k) THEN transcodeCatch(s1) ELSE s1

CheckCancellation(k) ==
  /\ k \in checkCancellation
  /\ ~MicrotaskPending
  /\ isCancelled
  /\ Apply(checkCancellationFired(Cur, k))

\* A faulty timer callback: it rejects the promise without calling cancel().
safetyTimeoutOnlyRejects(s, k) ==
  LET s0 == [s EXCEPT !.safetyTimeout = @ \ {k},
                      !.timedOut = @ \/ (k = s.run /\ s.pc = "exec")]
  IN IF s.isCancelled THEN s0
     ELSE IF Unsettled(s, k) THEN transcodeCatch(s0)
     ELSE s0

\* the setTimeout callback of run k
safetyTimeoutFired(s, k) ==
  LET s0 == [s EXCEPT !.safetyTimeout = @ \ {k},
                      !.timedOut = @ \/ (k = s.run /\ s.pc = "exec")]
      s1 == cancel(s0, "timeout")
  IN IF s.isCancelled THEN s0
     ELSE IF Unsettled(s, k) THEN transcodeCatch(s1)
     ELSE drain(s1)

SafetyTimeout(k) ==
  /\ k \in safetyTimeout
  /\ ~MicrotaskPending
  /\ Apply(safetyTimeoutFired(Cur, k))

Cancel ==
  /\ isProcessing => cbCount < MaxCallbacks
  /\ Apply(cancel(Cur, "user"))

\* the continuation of the main promise rejected by the abort listener
Continuation ==
  /\ MicrotaskPending
  /\ Apply(transcodeCatch(Cur))

readResolved(s, d) ==
  IF s.ffmpeg = NoInstance THEN transcodeCatch([s EXCEPT !.data = d])
  ELSE [s EXCEPT !.data = d, !.pc = "del1"]

ReadResolve(d) ==
  /\ pc = "read"
  /\ Apply(readResolved(Cur, d))

ReadReject ==
  /\ pc = "read"
  /\ Apply(engineRejected(Cur))

DeleteInputResolve ==
  /\ pc = "del1"
  /\ Apply(IF ffmpeg = NoInstance THEN transcodeCatch(Cur)
           ELSE [Cur EXCEPT !.pc = "del2"])

DeleteInputReject ==
  /\ pc = "del1"
  /\ Apply(engineRejected(Cur))

\* the last await of transcodeToMp4 resolved: the transcoded blob is returned
deleteOutputResolved(s) ==
  encodeReturn(s, Blob(<<s.data>>, TargetType), "Completed")

DeleteOutputResolve ==
  /\ pc = "del2"
  /\ Apply(deleteOutputResolved(Cur))

DeleteOutputReject ==
  /\ pc = "del2"
  /\ Apply(engineRejected(Cur))

destroy(s) ==
  LET s1 == IF s.isProcessing THEN cancel(s, "destroy") ELSE s
  IN [terminateFFmpeg(s1) EXCEPT
        !.progressCallback = FALSE, !.cancellationCallback = FALSE,
        !.currentFrame = 0, !.totalFrames = 0, !.estimatedDuration = 0,
        !.destroyed = TRUE, !.destroyedMid = @ \/ s.isProcessing]

Destroy == Apply(destroy(Cur))

\* The engine emits diagnostics and ticks while an exec is running.
EngineRunning == pc = "pre" \/ execPending # {}

\* the 'log' handler
LogLine(m) ==
  /\ EngineRunning
  /\ ~MicrotaskPending
  /\ ~isCancelled
  /\ Apply(extractTimeFromLog(Cur, m))

\* the 'progress' handler
progressTick(s) ==
  IF s.progressCallback /\ ~s.isCancelled
  THEN reportProgress(s, calculateProgress(s)) ELSE s

ProgressTick ==
  /\ EngineRunning
  /\ ~MicrotaskPending
  /\ ~isCancelled
  /\ Apply(progressTick(Cur))

\* calls of the user, answers of the engine, timers
LifecycleNext ==
  \/ \E c \in InputChunks : Encode(c)
  \/ InitResolve
  \/ InitReject
  \/ BlobRead
  \/ WriteResolve
  \/ WriteReject
  \/ \E failed \in BOOLEAN : PreAnalysisAnswer(failed)
  \/ \E k \in Runs : ExecResolve(k)
  \/ \E k \in Runs : ExecReject(k)
  \/ \E k \in Runs : CheckCancellation(k)
  \/ \E k \in Runs : SafetyTimeout(k)
  \/ Cancel
  \/ Continuation
  \/ \E d \in EngineOutputs : ReadResolve(d)
  \/ ReadReject
  \/ DeleteInputResolve
  \/ DeleteInputReject
  \/ DeleteOutputResolve
  \/ DeleteOutputReject
  \/ Destroy

Next ==
  \/ LifecycleNext
  \/ \E m \in LifecycleLines : LogLine(m)
  \/ ProgressTick

\* Every interleaving of the job's life cycle with diagnostics and ticks.
Spec == Init /\ [][Next]_vars

\* The steps of the life cycle along which scheduling is studied.  The bytes
\* of the input and the way the pre-analysis was answered enable and disable
\* nothing, so one input and one answer stand for all.
FairLifecycleNext ==
  /\ LifecycleNext
  /\ chunks' \in {<<>>, <<<<1>>, <<2, 3>>>>}
  /\ ~preFailed'

\* The life cycle alone, under the scheduling the event loop guarantees: an
\* armed interval timer fires, a runnable continuation runs and the browser
\* resolves the Blob's arrayBuffer().  Nothing is assumed of the engine.
FairLifecycleSpec ==
  /\ Init /\ [][FairLifecycleNext]_vars
  /\ \A k \in Runs : WF_vars(CheckCancellation(k))
  /\ WF_vars(Continuation)
  /\ WF_vars(BlobRead)

\* Every sequence of diagnostic lines and ticks, along runs in which the
\* engine answers every call and nobody cancels.
EstimatorNext ==
  \/ \E c \in InputChunks : ~isProcessing /\ Encode(c)
  \/ InitResolve
  \/ BlobRead
  \/ WriteResolve
  \/ PreAnalysisAnswer(FALSE)
  \/ \E k \in Runs : ExecResolve(k)
  \/ \E d \in EngineOutputs : ReadResolve(d)
  \/ DeleteInputResolve
  \/ DeleteOutputResolve
  \/ \E m \in LogLines : LogLine(m)
  \/ ProgressTick

EstimatorSpec == Init /\ [][EstimatorNext]_vars

\* ---------------------------------------------------- ProcessingJobFactory
\* (src/src/services/processing-job-factory.ts).  The factory sees a job
\* through encode(), cancel() and the cancellation callback it installed, so
\* a job is here its two flags; how a run gets to its end is the subject of
\* the specifications above.  A Set iterates in insertion order, which is the
\* order of the job numbers.
Jobs == 1..MaxJobs

Factory ==
  [created |-> created, activeJobs |-> activeJobs, processing |-> processing,
   cancelled |-> cancelled, throwing |-> throwing,
   removalTimers |-> removalTimers, ended |-> ended, removals |-> removals,
   cancelCalls |-> cancelCalls]

ApplyFactory(f) ==
  /\ created' = f.created
  /\ activeJobs' = f.activeJobs
  /\ processing' = f.processing
  /\ cancelled' = f.cancelled
  /\ throwing' = f.throwing
  /\ removalTimers' = f.removalTimers
  /\ ended' = f.ended
  /\ removals' = f.removals
  /\ cancelCalls' = f.cancelCalls
  /\ UNCHANGED <<encodingVars, mixerVars, processorVars>>

\* enhancedCancellation of job j: onCancelled() is called first, and if it
\* throws the removal is not scheduled
enhancedCancellation(f, j) ==
  IF j \in f.throwing THEN f
  ELSE [f EXCEPT !.removalTimers[j] = @ + 1]

\* job j's cancel() does not return normally: its callback threw
cancelThrows(f, j) == j \in f.processing /\ j \in f.throwing

\* job j's cancel(), whose last statement is the call of the callback
jobCancel(f, j) ==
  IF j \notin f.processing THEN f
  ELSE enhancedCancellation([f EXCEPT !.cancelled = @ \cup {j}], j)

\* the forEach of cancelAllJobs over the copy of the set, from job j on
RECURSIVE cancelEach(_, _, _)
cancelEach(f, jobs, j) ==
  IF j > MaxJobs THEN f
  ELSE IF j \notin jobs THEN cancelEach(f, jobs, j + 1)
  ELSE cancelEach(jobCancel([f EXCEPT !.cancelCalls = @ \cup {j}], j),
                  jobs, j + 1)

\* A faulty cancelAllJobs, without the try/catch: the first cancel() that
\* throws ends the forEach and the call.
cancelAllJobsUnguarded(f) ==
  LET throwers == {j \in f.activeJobs : cancelThrows(f, j)}
      reached == {j \in f.activeJobs : \A k \in throwers : j <= k}
      f1 == cancelEach([f EXCEPT !.cancelCalls = {}], reached, 1)
  IN IF throwers # {} THEN f1
     ELSE [f1 EXCEPT !.activeJobs = {},
                     !.removals = [j \in Jobs |-> IF j \in f.activeJobs
                                                  THEN @[j] + 1 ELSE @[j]]]

cancelAllJobs(f) ==
  LET f1 == cancelEach([f EXCEPT !.cancelCalls = {}], f.activeJobs, 1)
  IN [f1 EXCEPT !.activeJobs = {},
                !.removals = [j \in Jobs |-> IF j \in f.activeJobs
                                             THEN @[j] + 1 ELSE @[j]]]

getActiveJobCount(f) == Cardinality(f.activeJobs)

\* createEncodingJob(onProgress, onCancelled), where throws tells whether
\* onCancelled is a callback that throws
CreateEncodingJob(throws) ==
  /\ created # Jobs
  /\ LET j == Cardinality(created) + 1
     IN ApplyFactory([Factory EXCEPT
          !.created = @ \cup {j},
          !.activeJobs = @ \cup {j},
          !.throwing = IF throws THEN @ \cup {j} ELSE @])

\* encode() on job j, which its holder can call whether or not the factory
\* still tracks the job
JobEncode(j) ==
  /\ j \in created
  /\ j \notin processing
  /\ ApplyFactory([Factory EXCEPT !.processing = @ \cup {j},
                                  !.cancelled = @ \ {j},
                                  !.ended = @ \ {j}])

\* the holder of job j calls cancel()
JobCancel(j) ==
  /\ j \in created
  /\ removalTimers[j] < MaxCallbacks
  /\ ApplyFactory(jobCancel(Factory, j))

\* the safety timer of a run of job j fires
JobTimeout(j) ==
  /\ j \in processing
  /\ j \notin cancelled
  /\ removalTimers[j] < MaxCallbacks
  /\ ApplyFactory(jobCancel(Factory, j))

\* the finally block of encode()
jobFinally(f, j) ==
  [f EXCEPT !.processing = @ \ {j}, !.ended = @ \cup {j}]

\* the run of job j returns a blob, transcoded or fallback
JobResolve(j) ==
  /\ j \in processing
  /\ ApplyFactory(jobFinally(Factory, j))

\* the run of job j throws: the catch block of encode() calls the callback
\* if the run was cancelled
JobReject(j) ==
  /\ j \in processing
  /\ ApplyFactory(jobFinally(IF j \in cancelled
                             THEN enhancedCancellation(Factory, j)
                             ELSE Factory, j))

\* the setTimeout(0) callback scheduled by enhancedCancellation of job j
removalTimerFired(f, j) ==
  LET f1 == [f EXCEPT !.removalTimers[j] = @ - 1]
  IN IF j \in f.activeJobs
     THEN [f1 EXCEPT !.activeJobs = @ \ {j}, !.removals[j] = @ + 1]
     ELSE f1

RemovalTimer(j) ==
  /\ removalTimers[j] > 0
  /\ ApplyFactory(removalTimerFired(Factory, j))

CancelAllJobs == ApplyFactory(cancelAllJobs(Factory))

FactoryNext ==
  \/ \E throws \in BOOLEAN : CreateEncodingJob(throws)
  \/ \E j \in Jobs : JobEncode(j)
  \/ \E j \in Jobs : JobCancel(j)
  \/ \E j \in Jobs : JobTimeout(j)
  \/ \E j \in Jobs : JobResolve(j)
  \/ \E j \in Jobs : JobReject(j)
  \/ \E j \in Jobs : RemovalTimer(j)
  \/ CancelAllJobs

\* Every interleaving of the factory's operations with the runs of its jobs.
FactorySpec == Init /\ [][FactoryNext]_vars

\* -------------------------------------------------------- AudioMixerService
\* (src/src/services/audio-mixer.service.ts).  A graph is named after its
\* audio context; the nodes of a graph are named after the fields and the
\* local constants that hold them.
Mixer ==
  [audioContext |-> audioContext, mixedDestination |-> mixedDestination,
   analyzerNode |-> analyzerNode, systemSource |-> systemSource,
   micSource |-> micSource, systemGain |-> systemGain, micGain |-> micGain,
   ctxState |-> ctxState, nodes |-> nodes, connections |-> connections,
   micGainValue |-> micGainValue, systemGainValue |-> systemGainValue,
   scheduled |-> scheduled, frameCount |-> frameCount,
   warned |-> warned, returned |-> returned, raised |-> raised]

ApplyMixer(m) ==
  /\ audioContext' = m.audioContext
  /\ mixedDestination' = m.mixedDestination
  /\ analyzerNode' = m.analyzerNode
  /\ systemSource' = m.systemSource
  /\ micSource' = m.micSource
  /\ systemGain' = m.systemGain
  /\ micGain' = m.micGain
  /\ ctxState' = m.ctxState
  /\ nodes' = m.nodes
  /\ connections' = m.connections
  /\ micGainValue' = m.micGainValue
  /\ systemGainValue' = m.systemGainValue
  /\ scheduled' = m.scheduled
  /\ frameCount' = m.frameCount
  /\ warned' = m.warned
  /\ returned' = m.returned
  /\ raised' = m.raised
  /\ UNCHANGED <<encodingVars, factoryVars, processorVars>>

\* A stream argument: null, a stream without audio track, a stream with one.
Streams == {"null", "silent", "audio"}

\* What the browser refuses during a build: nothing, the AudioContext
\* constructor throws, or createMediaStreamSource throws.
Faults == {"none", "context", "source"}

\* The average magnitudes the analyser reports, on both sides of the two
\* thresholds.
Levels == {0, 9, 10, 100, 101, 255}

\* the number the next audio context gets
NextGraph(m) == 1 + Cardinality({g \in Graphs : m.ctxState[g] # "none"})

\* disconnectNode(node): node.disconnect() undoes the outgoing connections
\* of the node; it is skipped for a null reference.
disconnectNode(m, node, name) ==
  IF node # NoNode
  THEN [m EXCEPT !.connections = {e \in @ : e[1] # name}]
  ELSE m

\* A faulty cleanup(): close() is called without looking at the reference,
\* outside a try.
cleanupUnguarded(m) ==
  IF m.audioContext = NoNode THEN [m EXCEPT !.raised = TRUE]
  ELSE [m EXCEPT !.ctxState[m.audioContext] = "closing",
                 !.audioContext = NoNode, !.mixedDestination = NoNode,
                 !.analyzerNode = NoNode, !.systemSource = NoNode,
                 !.micSource = NoNode, !.systemGain = NoNode,
                 !.micGain = NoNode]

\* cleanup(): close() is called on the context, which closes later; five of
\* the tracked nodes are disconnected; the seven references are reset.
cleanup(m) ==
  LET m1 == IF m.audioContext # NoNode
            THEN [m EXCEPT !.ctxState[m.audioContext] = "closing"] ELSE m
      m2 == disconnectNode(m1, m1.systemSource, "systemSource")
      m3 == disconnectNode(m2, m2.micSource, "micSource")
      m4 == disconnectNode(m3, m3.systemGain, "systemGain")
      m5 == disconnectNode(m4, m4.micGain, "micGain")
      m6 == disconnectNode(m5, m5.analyzerNode, "analyzerNode")
  IN [m6 EXCEPT !.audioContext = NoNode, !.mixedDestination = NoNode,
                !.analyzerNode = NoNode, !.systemSource = NoNode,
                !.micSource = NoNode, !.systemGain = NoNode,
                !.micGain = NoNode]

\* the context, the analyser, the destination, the shared stages and the
\* two connections of the final limiter
buildGraph(m, g) ==
  [m EXCEPT !.audioContext = g, !.ctxState[g] = "suspended",
            !.analyzerNode = g, !.mixedDestination = g,
            !.nodes = {"analyzerNode", "mixedDestination", "micCompressor",
                       "systemCompressor", "voiceEnhancer", "finalLimiter"},
            !.connections = {<<"finalLimiter", "mixedDestination">>,
                             <<"finalLimiter", "analyzerNode">>},
            !.micGainValue = 0, !.systemGainValue = 0]

\* the microphone chain
addMicrophone(m) ==
  LET g == m.audioContext
  IN [m EXCEPT !.micSource = g, !.micGain = g,
               !.micGainValue = MicGainInitial,
               !.nodes = @ \cup {"micSource", "micGain",
                                 "micPresenceCompressor"},
               !.connections =
                 @ \cup {<<"micSource", "micGain">>,
                         <<"micGain", "micPresenceCompressor">>,
                         <<"micPresenceCompressor", "voiceEnhancer">>,
                         <<"voiceEnhancer", "micCompressor">>,
                         <<"micCompressor", "finalLimiter">>}]

\* A faulty system-audio chain: the system gain feeds the microphone's
\* compressor.
addSystemAudioSharedCompressor(m) ==
  LET g == m.audioContext
  IN [m EXCEPT !.systemSource = g, !.systemGain = g,
               !.systemGainValue = SystemGainInitial,
               !.nodes = @ \cup {"systemSource", "systemGain"},
               !.connections =
                 @ \cup {<<"systemSource", "systemGain">>,
                         <<"systemGain", "micCompressor">>,
                         <<"micCompressor", "finalLimiter">>}]

\* the system-audio chain
addSystemAudio(m) ==
  LET g == m.audioContext
  IN [m EXCEPT !.systemSource = g, !.systemGain = g,
               !.systemGainValue = SystemGainInitial,
               !.nodes = @ \cup {"systemSource", "systemGain"},
               !.connections =
                 @ \cup {<<"systemSource", "systemGain">>,
                         <<"systemGain", "systemCompressor">>,
                         <<"systemCompressor", "finalLimiter">>}]

\* monitorLevels(): a loop with a frame counter of its own is started by
\* handing its first callback to requestAnimationFrame
monitorLevels(m) ==
  IF m.analyzerNode = NoNode THEN m
  ELSE [m EXCEPT !.scheduled = @ \cup {m.audioContext},
                 !.frameCount[m.audioContext] = 0]

\* A faulty createMixedAudioStream(): the previous graph is not cleaned up
\* before the new one is built.
createMixedAudioStreamKeepsPrevious(m, systemAudio, micAudio, fault) ==
  LET m0 == [m EXCEPT !.warned = FALSE]
      g == NextGraph(m0)
      m1 == buildGraph(m0, g)
      m2 == IF micAudio = "audio" THEN addMicrophone(m1) ELSE m1
      m3 == IF systemAudio = "audio" THEN addSystemAudio(m2) ELSE m2
  IN IF systemAudio = "null" /\ micAudio = "null"
     THEN [m0 EXCEPT !.warned = TRUE, !.returned = NoNode]
     ELSE IF fault = "context"
     THEN [cleanup(m0) EXCEPT !.returned = NoNode]
     ELSE IF fault = "source" /\ micAudio = "audio"
     THEN [cleanup(m1) EXCEPT !.returned = NoNode]
     ELSE IF fault = "source" /\ systemAudio = "audio"
     THEN [cleanup(m2) EXCEPT !.returned = NoNode]
     ELSE [monitorLevels(m3) EXCEPT !.returned = g]

\* A faulty createMixedAudioStream(): the arguments are validated after the
\* context and the shared nodes have been created.
createMixedAudioStreamValidatesLate(m, systemAudio, micAudio, fault) ==
  LET m0 == [cleanup(m) EXCEPT !.warned = FALSE]
      g == NextGraph(m0)
      m1 == buildGraph(m0, g)
      m2 == IF micAudio = "audio" THEN addMicrophone(m1) ELSE m1
      m3 == IF systemAudio = "audio" THEN addSystemAudio(m2) ELSE m2
  IN IF fault = "context" THEN [cleanup(m0) EXCEPT !.returned = NoNode]
     ELSE IF systemAudio = "null" /\ micAudio = "null"
     THEN [m1 EXCEPT !.warned = TRUE, !.returned = NoNode]
     ELSE IF fault = "source" /\ micAudio = "audio"
     THEN [cleanup(m1) EXCEPT !.returned = NoNode]
     ELSE IF fault = "source" /\ systemAudio = "audio"
     THEN [cleanup(m2) EXCEPT !.returned = NoNode]
     ELSE [monitorLevels(m3) EXCEPT !.returned = g]

\* createMixedAudioStream(systemAudio, micAudio).  An exception thrown in
\* the try block is caught: cleanup() runs again and null is returned.
createMixedAudioStream(m, systemAudio, micAudio, fault) ==
  LET m0 == [cleanup(m) EXCEPT !.warned = FALSE]
      g == NextGraph(m0)
      m1 == buildGraph(m0, g)
      m2 == IF micAudio = "audio" THEN addMicrophone(m1) ELSE m1
      m3 == IF systemAudio = "audio" THEN addSystemAudio(m2) ELSE m2
  IN IF systemAudio = "null" /\ micAudio = "null"
     THEN [m0 EXCEPT !.warned = TRUE, !.returned = NoNode]
     ELSE IF fault = "context"
     THEN [cleanup(m0) EXCEPT !.returned = NoNode]
     ELSE IF fault = "source" /\ micAudio = "audio"
     THEN [cleanup(m1) EXCEPT !.returned = NoNode]
     ELSE IF fault = "source" /\ systemAudio = "audio"
     THEN [cleanup(m2) EXCEPT !.returned = NoNode]
     ELSE [monitorLevels(m3) EXCEPT !.returned = g]

CreateMixedAudioStream(systemAudio, micAudio, fault) ==
  /\ \/ systemAudio = "null" /\ micAudio = "null"
     \/ fault = "context"
     \/ NextGraph(Mixer) <= MaxGraphs
  /\ ApplyMixer(createMixedAudioStream(Mixer, systemAudio, micAudio, fault))

Cleanup == ApplyMixer(cleanup(Mixer))

\* the browser starts the rendering of a new context
ContextRunning(g) ==
  /\ ctxState[g] = "suspended"
  /\ ApplyMixer([Mixer EXCEPT !.ctxState[g] = "running"])

\* the browser completes a close()
ContextClosed(g) ==
  /\ ctxState[g] = "closing"
  /\ ApplyMixer([Mixer EXCEPT !.ctxState[g] = "closed"])

\* A faulty autoAdjustLevels(): the gains are raised without a ceiling.
autoAdjustLevelsUncapped(m, averageLevel) ==
  IF averageLevel < LowLevel /\ m.micGain # NoNode /\ m.systemGain # NoNode
  THEN [m EXCEPT !.micGainValue = (@ * 11) \div 10,
                 !.systemGainValue = (@ * 21) \div 20]
  ELSE IF averageLevel > HighLevel /\ m.micGain # NoNode
            /\ m.systemGain # NoNode
  THEN [m EXCEPT !.systemGainValue =
                   IF @ > SystemGainFloor
                   THEN Max((@ * 19) \div 20, SystemGainFloor) ELSE @]
  ELSE m

\* autoAdjustLevels(averageLevel): the factors are 1.1, 1.05 and 0.95
autoAdjustLevels(m, averageLevel) ==
  IF averageLevel < LowLevel /\ m.micGain # NoNode /\ m.systemGain # NoNode
  THEN [m EXCEPT !.micGainValue =
                   IF @ < MicGainCeiling
                   THEN Min((@ * 11) \div 10, MicGainCeiling) ELSE @,
                 !.systemGainValue =
                   IF @ < SystemGainCeiling
                   THEN Min((@ * 21) \div 20, SystemGainCeiling) ELSE @]
  ELSE IF averageLevel > HighLevel /\ m.micGain # NoNode
            /\ m.systemGain # NoNode
  THEN [m EXCEPT !.systemGainValue =
                   IF @ > SystemGainFloor
                   THEN Max((@ * 19) \div 20, SystemGainFloor) ELSE @]
  ELSE m

\* checkLevels of loop l, run by requestAnimationFrame: the callback reads
\* the fields of the mixer as they are when it runs.
checkLevels(m, l, averageLevel) ==
  LET m0 == [m EXCEPT !.scheduled = @ \ {l}]
      m1 == IF m0.frameCount[l] % SampleEvery = 0
            THEN autoAdjustLevels(m0, averageLevel) ELSE m0
      m2 == [m1 EXCEPT !.frameCount[l] = (@ + 1) % SampleEvery]
  IN IF m0.analyzerNode = NoNode \/ m0.audioContext = NoNode THEN m0
     ELSE IF m2.ctxState[m2.audioContext] = "running"
     THEN [m2 EXCEPT !.scheduled = @ \cup {l}]
     ELSE m2

CheckLevels(l, averageLevel) ==
  /\ l \in scheduled
  /\ ApplyMixer(checkLevels(Mixer, l, averageLevel))

\* Every sequence of calls on the mixer, interleaved with the browser and
\* with the first frames of every monitoring loop.
MixerNext ==
  \/ \E systemAudio \in Streams, micAudio \in Streams, fault \in Faults :
       CreateMixedAudioStream(systemAudio, micAudio, fault)
  \/ Cleanup
  \/ \E g \in Graphs : ContextRunning(g)
  \/ \E g \in Graphs : ContextClosed(g)
  \/ \E l \in Graphs, averageLevel \in Levels :
       frameCount[l] < MaxFrames /\ CheckLevels(l, averageLevel)

MixerSpec == Init /\ [][MixerNext]_vars

\* One graph and its monitoring loop, under every sequence of level
\* readings, for as many frames as the loop runs.
LevelsNext ==
  \/ \E systemAudio \in Streams, micAudio \in Streams :
       /\ NextGraph(Mixer) = 1
       /\ CreateMixedAudioStream(systemAudio, micAudio, "none")
  \/ \E g \in Graphs : ContextRunning(g)
  \/ \E l \in Graphs, averageLevel \in Levels : CheckLevels(l, averageLevel)

LevelsSpec == Init /\ [][LevelsNext]_vars

\* ------------------------------------------------------------------ claims
\* The run has settled: encode() resolved or rejected.
Settled == result.kind # "none"

\* An independent reading of "the segments concatenated in order": a left
\* fold over the positions of the sequence.
SegmentsInOrder(c) ==
  LET F[i \in 0..Len(c)] == IF i = 0 THEN <<>> ELSE F[i - 1] \o c[i]
  IN F[Len(c)]

\* C1: for a run on which cancellation was requested while it was
\* Processing (by cancel() or by the safety timeout), the registered
\* cancellation callback is invoked exactly once.
C1_CallbackExactlyOnce ==
  /\ cbCount <= 1
  /\ (cause # "none" /\ cancellationCallback) => cbCount = 1

\* C2: once the cancellation callback has fired for a run, no progress
\* callback is invoked for that run.
C2_NoProgressAfterCancel == ~lateProgress

\* C3: within one run the ratios passed to the progress callback are
\* non-decreasing.
C3_RatiosNonDecreasing == [][run' = run => lastRatio' >= lastRatio]_vars

\* C4: a run reports 1.0 at most once, and (with a progress callback
\* registered) reports it if and only if its outcome is Completed.
C4_OneIffCompleted ==
  /\ ones <= 1
  /\ (Settled /\ progressCallback) =>
       (ones = 1 <=> result.outcome = "Completed")

\* C5: an encode() call on a Processing job is rejected as already
\* processing and changes no field of the job or of its run in flight.
C5_BusyEncodeChangesNothing ==
  [][(isProcessing /\ \E c \in InputChunks : Encode(c))
       => (busyRejected' /\ UNCHANGED jobVars)]_vars

C5_Witness == isProcessing /\ busyRejected /\ pc = "exec" /\ isCancelled

\* C6: a run in which an engine call failed and no cancellation was
\* requested resolves with a blob of the target type whose bytes are the
\* segments concatenated in order.
C6_FallbackIsInput ==
  (Settled /\ engineFailed /\ cause = "none") =>
    /\ result.kind = "resolved"
    /\ result.type = "video/mp4"
    /\ result.bytes = SegmentsInOrder(chunks)

C6_Witness ==
  /\ engineFailed /\ cause = "none"
  /\ chunks = <<<<2, 3>>, <<1>>>>
  /\ result.kind = "resolved" /\ result.bytes = <<2, 3, 1>>

\* C7: a run on which cancellation was requested never returns the
\* pass-through fallback; if an engine call of it failed after the request,
\* encode() rejects with the cancellation error.
C7_CancelBeatsFallback ==
  cause # "none" =>
    /\ result.outcome # "Fallback"
    /\ (Settled /\ engineFailed) =>
         (result.kind = "rejected" /\ result.error = "Operation cancelled")

C7_Witness ==
  cause = "user" /\ engineFailed /\ result.kind = "rejected" /\ cbCount > 0

\* C8: after the cancellation callback has fired for a run, encode() does
\* not resolve with a blob and 1.0 is not reported.
C8_NoSuccessAfterCancel ==
  cbCount > 0 => (result.kind # "resolved" /\ ones = 0)

\* C9: a run cancelled by the safety timeout rejects with an error other
\* than the one a user-initiated cancel() produces.
C9_TimeoutDistinguishable ==
  (cause = "timeout" /\ result.kind = "rejected")
    => result.error # "Operation cancelled"

\* C10: once the safety timer of a run has fired during its main engine
\* invocation, the run's engine instance has been terminated, the
\* cancellation callback has fired, and encode() has rejected as cancelled
\* or is about to: the run does not stay in the engine invocation.
C10_TimedOutState ==
  timedOut =>
    /\ termCount[run] >= 1
    /\ cancellationCallback => cbCount >= 1
    /\ \/ pc = "idle" /\ result.kind = "rejected"
            /\ result.outcome = "Cancelled"
       \/ pc = "exec" /\ isCancelled /\ run \in checkCancellation

C10_TimeoutCancels ==
  /\ []C10_TimedOutState
  /\ (timedOut /\ isProcessing) ~> (~isProcessing)

C10_Witness ==
  /\ timedOut /\ cause = "timeout" /\ pc = "idle"
  /\ result.kind = "rejected" /\ cbCount >= 1 /\ termCount[run] = 1

\* C11: destroy() on a job that is Processing results in exactly one
\* termination attempt on the engine instance of that run, whichever await
\* the run was suspended at (a run whose engine never loaded has no
\* instance).
C11_DestroyTerminatesOnce ==
  destroyedMid =>
    /\ termCount[run] <= 1
    /\ (Settled /\ result.outcome # "InitError") => termCount[run] = 1

\* C12: once destroy() has been called on a job, no encode() call starts a
\* new run on it.
C12_NoRunAfterDestroy == [][destroyed => run' = run]_vars

\* C15: once a run on which cancellation was requested has settled, the job
\* does not hold the engine instance acquired for that run: cancel() has
\* terminated it.
C15_CancelTerminatesInstance == (Settled /\ cause # "none") => ffmpeg # run

\* C16: a Processing run on which cancel() was called eventually settles
\* (the claim: by rejecting with the cancellation error), whether or not the
\* engine answers the call the run is awaiting.  The timers and the
\* continuations of the job are scheduled fairly; the engine is not.
C16_CancelNeedsNoEngine == (isProcessing /\ isCancelled) ~> Settled

\* C20 as stated: encode() rejects only with the engine-init error or the
\* cancellation error (a busy call with the already-processing error), and a
\* run not cancelled in which any engine call failed, the pre-analysis
\* included, settles with the fallback.
C20_EveryFailureFallsBack ==
  /\ result.kind = "rejected" =>
       result.error \in {"Failed to initialize FFmpeg", "Operation cancelled"}
  /\ (Settled /\ (engineFailed \/ preFailed) /\ cause = "none")
       => result.outcome = "Fallback"

\* C20, amended: encode() rejects only with the engine-init error or, on a
\* run on which cancellation was requested, the cancellation error; a run
\* not cancelled settles with the fallback if writeFile, the main exec,
\* readFile or deleteFile failed, while a failure of the pre-analysis alone
\* is swallowed and the run completes with the transcoded blob.
C20_RejectionsAndFallback ==
  /\ result.kind = "rejected" =>
       \/ result.error = "Failed to initialize FFmpeg"
            /\ result.outcome = "InitError"
       \/ result.error = "Operation cancelled" /\ cause # "none"
  /\ (Settled /\ cause = "none" /\ result.outcome # "InitError") =>
       /\ result.kind = "resolved"
       /\ engineFailed => result.outcome = "Fallback"
       /\ ~engineFailed => result.outcome = "Completed"

C20_Witness ==
  /\ preFailed /\ ~engineFailed /\ cause = "none"
  /\ result.kind = "resolved" /\ result.outcome = "Completed"
  /\ result.bytes = <<7, 8>>

\* The budget the claims state for a WxH source: 180000 ms times
\* min(W*H / (1920*1080), 4), at most 600000 ms (180000 / (1920*1080) is
\* 25/288).
Budget(w, h) ==
  LET capped == IF w * h > 4 * 1920 * 1080 THEN 4 * 1920 * 1080 ELSE w * h
      scaled == (25 * capped) \div 288
  IN IF scaled > 600000 THEN 600000 ELSE scaled

\* C17: a diagnostic of unknown duration with resolution WxH sets the safety
\* timeout to min(180000 * min(W*H/(1920*1080), 4), 600000) ms; 3840x2160
\* gives 600000 ms.
C17_BudgetFromComplexity ==
  [][/\ \A m \in LogLines :
          (m.na /\ m.video /\ m.res # <<>> /\ LogLine(m))
            => safetyTimeoutMs' = Budget(m.res[1], m.res[2])
     /\ LogLine(NaLine) => safetyTimeoutMs' = 600000
     /\ LogLine(QhdNaLine) => safetyTimeoutMs' = 320000]_vars

C17_Witness ==
  /\ safetyTimeoutMs = 600000 /\ totalFrames = 7200 /\ isProcessing

\* C18: the safety timeout of a job is always between the 180000 ms base
\* and the 600000 ms cap.
C18_BudgetWithinBaseAndCap ==
  safetyTimeoutMs >= 180000 /\ safetyTimeoutMs <= 600000

\* Seconds (in hundredths) of a duration HH:MM:SS.ff, by Horner's rule.
Hundredths(d) == ((d[1] * 60 + d[2]) * 60) * 100 + d[3]

\* round(d * f) for d in hundredths of a second: the nearest integer to
\* d*f/100, halves rounded up.
Frames(d, f) ==
  LET whole == (d * f) \div 100
      rest == (d * f) % 100
  IN IF rest >= 50 THEN whole + 1 ELSE whole

C13_CancelAllReachesEveryJob ==
  [][CancelAllJobs =>
       /\ cancelCalls' = activeJobs
       /\ \A j \in activeJobs \cap processing : j \in cancelled'
       /\ getActiveJobCount(Factory)' = 0]_vars

C13_Witness ==
  /\ cancelCalls = {1, 2} /\ 1 \in throwing /\ {1, 2} \subseteq processing
  /\ {1, 2} \subseteq cancelled /\ activeJobs = {}

\* C14: a job whose run has ended has been removed from the live set or has
\* its removal scheduled, whether the run returned or threw, and no job is
\* removed twice (jobs whose own callback throws are left aside).
C14_RemovedOnceAfterRun ==
  /\ \A j \in Jobs : removals[j] <= 1
  /\ \A j \in ended \ throwing : j \notin activeJobs \/ removalTimers[j] > 0

\* C21: when engine initialization fails, the job was not Processing while
\* the initialization was awaited, encode() rejects with the engine-init
\* error and no progress callback has fired for the call.
C21_InitFailureNeverProcessing ==
  [][InitReject =>
       /\ ~isProcessing
       /\ result' = Rejected(InitError, "InitError")
       /\ lastRatio' = 0 /\ ones' = 0]_vars

\* C25: cancel() on a job that is not Processing changes no field of the job,
\* invokes no cancellation callback and terminates no engine instance.
C25_IdleCancelChangesNothing ==
  [][(~isProcessing /\ Cancel) =>
       UNCHANGED <<jobVars, cbCount, cause, result>>]_vars

\* An idle job on which cancel() would find something to do: a run has
\* completed, the job still holds the engine instance of that run and a
\* cancellation callback, and neither has been touched.
C25_Witness ==
  /\ ~isProcessing /\ result.outcome = "Completed"
  /\ ffmpeg = run /\ termCount[run] = 0
  /\ cancellationCallback /\ cbCount = 0 /\ ~isCancelled
  /\ ENABLED Cancel

\* C26: an accepted encode() starts the new run with the current frame, the
\* total-frame estimate and the estimated duration all reset to zero.
C26_EncodeResetsCounters ==
  [][(~isProcessing /\ \E c \in InputChunks : Encode(c)) =>
       /\ currentFrame' = 0
       /\ totalFrames' = 0
       /\ estimatedDuration' = 0]_vars

\* The ratio of a tick in millionths, from the two counters alone: 0.05
\* before the first frame, 0.1 + 0.9 * frame / total when the total exceeds
\* both the frame and 10, and 0.1 + 0.89 * min(frame, 300) / 300 otherwise,
\* the last two capped at 0.99.
TickRatio(frame, total) ==
  IF frame = 0 THEN 50000
  ELSE IF total > frame /\ total > 10
  THEN Min((100000 * total + 900000 * frame) \div total, 990000)
  ELSE Min((30000000 + 890000 * Min(frame, 300)) \div 300, 990000)

\* C27: whatever the counters hold, the ratio a tick computes is the one
\* stated above, it lies in [0.05, 0.99], and it is the ratio the tick
\* reports to the progress callback.
C27_TickRatio ==
  /\ [](/\ calculateProgress(Cur) = TickRatio(currentFrame, totalFrames)
        /\ calculateProgress(Cur) >= 50000
        /\ calculateProgress(Cur) <= 990000)
  /\ [][ProgressTick =>
          lastRatio' = TickRatio(currentFrame, totalFrames)]_vars

\* A tick has reported the staged ratio of frame 99 of 100, which the cap
\* brought from 0.991 down to 0.99.
C27_Witness ==
  /\ isProcessing /\ currentFrame = 99 /\ totalFrames = 100
  /\ lastRatio = 990000

\* The main invocation of the current run has been decided: the engine
\* completed it and the run went on to read the output, or the run is over.
RaceDecided == run > 0 /\ (pc \in {"read", "del1", "del2"} \/ Settled)

\* a completion signal of the current run: an answer of its main invocation,
\* a cancellation, its cancellation poll or its safety timer
CompletionSignal ==
  \/ Cancel
  \/ ExecResolve(run) \/ ExecReject(run)
  \/ CheckCancellation(run) \/ SafetyTimeout(run)

\* C28: once the main invocation of a run has been decided, a later
\* completion signal of that run invokes no cancellation callback,
\* terminates no engine instance and leaves the run's outcome alone.
C28_SignalsExclusive ==
  [][(RaceDecided /\ CompletionSignal) =>
       /\ cbCount' = cbCount
       /\ termCount' = termCount
       /\ isCancelled' = isCancelled
       /\ result' = result]_vars

\* C29: no diagnostic line lowers the current frame, the total-frame
\* estimate or the estimated duration of the run in flight.
C29_CountersNeverDecrease ==
  [][(\E m \in LogLines : LogLine(m)) =>
       /\ currentFrame' >= currentFrame
       /\ totalFrames' >= totalFrames
       /\ estimatedDuration' >= estimatedDuration]_vars

\* no reference of the mixer is set
NoReferences ==
  /\ audioContext = NoNode /\ mixedDestination = NoNode
  /\ analyzerNode = NoNode /\ systemSource = NoNode /\ micSource = NoNode
  /\ systemGain = NoNode /\ micGain = NoNode

\* C22: createMixedAudioStream(null, null) returns null, creates no audio
\* context and no node, and leaves every reference of the mixer null.
C22_NoSourcesNoAllocation ==
  [][(\E fault \in Faults : CreateMixedAudioStream("null", "null", fault)) =>
       /\ returned' = NoNode
       /\ \A g \in Graphs : ctxState[g] = "none" => ctxState'[g] = "none"
       /\ nodes' = nodes
       /\ NoReferences']_vars

\* createMixedAudioStream(null, null) was called on a mixer that had built
\* one graph: null was returned and no second context exists.
C22_Witness ==
  /\ warned /\ returned = NoNode /\ NoReferences
  /\ ctxState[1] = "closing" /\ ctxState[2] = "none"

\* the contexts that exist and on which close() has not been called
LiveContexts == {g \in Graphs : ctxState[g] \in {"suspended", "running"}}

\* the references of the mixer
References ==
  {audioContext, mixedDestination, analyzerNode, systemSource, micSource,
   systemGain, micGain}

C24_CleanupIsSafe ==
  [][Cleanup =>
       /\ ~raised'
       /\ NoReferences'
       /\ audioContext # NoNode => ctxState'[audioContext] = "closing"
       /\ NoReferences => UNCHANGED mixerVars]_vars

\* cleanup() was called on the graph whose stream the last mix request
\* returned: the context is closing, the sources, the gains and the analyser
\* are disconnected and nothing is referenced.
C24_Witness ==
  /\ returned = 1 /\ ctxState[1] = "closing" /\ NoReferences /\ ~raised
  /\ "micGain" \in nodes /\ "systemGain" \in nodes
  /\ \A e \in connections :
       e[1] \notin {"systemSource", "micSource", "systemGain", "micGain",
                    "analyzerNode"}

\* C30: the microphone gain never exceeds 4.0 and the system-audio gain
\* stays within [0.5, 2.5]; a reading below the low threshold lowers no
\* gain, a reading above the high threshold leaves the microphone gain
\* alone and does not raise the system-audio gain, and any other reading
\* changes no gain.
C30_GainsWithinLimits ==
  /\ [](/\ micGain # NoNode => micGainValue <= 400
        /\ systemGain # NoNode =>
             (systemGainValue >= 50 /\ systemGainValue <= 250))
  /\ [][\A l \in Graphs, averageLevel \in Levels :
          CheckLevels(l, averageLevel) =>
            /\ averageLevel < 10 =>
                 (micGainValue' >= micGainValue
                    /\ systemGainValue' >= systemGainValue)
            /\ averageLevel > 100 =>
                 (micGainValue' = micGainValue
                    /\ systemGainValue' <= systemGainValue)
            /\ (averageLevel >= 10 /\ averageLevel <= 100) =>
                 (micGainValue' = micGainValue
                    /\ systemGainValue' = systemGainValue)]_vars

\* Low readings have brought the microphone gain to its ceiling, and high
\* readings have then brought the system-audio gain to its floor.
C30_Witness ==
  /\ micGain # NoNode /\ systemGain # NoNode
  /\ micGainValue = 400 /\ systemGainValue = 50

\* the nodes reached from the nodes S along the connections E
RECURSIVE Reach(_, _)
Reach(S, E) ==
  LET T == S \cup {e[2] : e \in {x \in E : x[1] \in S}}
  IN IF T = S THEN S ELSE Reach(T, E)

\* the dynamics compressors a source chain can own
ChainCompressors ==
  {"micCompressor", "micPresenceCompressor", "systemCompressor"}

\* Source reaches the final limiter, and only through a compressor that the
\* other source does not reach.
OwnCompressor(source, other) ==
  /\ "finalLimiter" \in Reach({source}, connections)
  /\ \E c \in ChainCompressors :
       /\ c \notin Reach({other}, connections)
       /\ "finalLimiter" \notin
            Reach({source}, {e \in connections : e[2] # c})

\* the graph whose stream the last mix request returned is still in place
GraphInPlace == returned # None /\ returned # NoNode /\ audioContext = returned

\* C31: in a graph that createMixedAudioStream built, each source present
\* reaches the final limiter only through a compressor of its own, the two
\* chains share no node in front of the final limiter, and the final limiter
\* is the only node connected to the destination.
C31_SeparateChains ==
  GraphInPlace =>
    /\ micSource # NoNode => OwnCompressor("micSource", "systemSource")
    /\ systemSource # NoNode => OwnCompressor("systemSource", "micSource")
    /\ Reach({"micSource"}, connections)
         \cap Reach({"systemSource"}, connections)
         \subseteq {"finalLimiter", "mixedDestination", "analyzerNode"}
    /\ {e[1] : e \in {x \in connections : x[2] = "mixedDestination"}}
         = {"finalLimiter"}

\* a graph with both sources has been built and is in place
C31_Witness ==
  /\ GraphInPlace /\ micSource = returned /\ systemSource = returned
  /\ "mixedDestination" \in Reach({"micSource"}, connections)
  /\ "mixedDestination" \in Reach({"systemSource"}, connections)

\* C36: a graph whose stream a mix request returned has a source that is
\* connected through its chain to the destination.
C36_StreamHasSource ==
  GraphInPlace =>
    \E source \in {"micSource", "systemSource"} :
      /\ source \in nodes
      /\ "mixedDestination" \in Reach({source}, connections)

\* C32: once cleanup() has called close() on the context of a graph, a
\* callback of the monitoring loop started for that graph adjusts no gain
\* and does not reschedule the loop.
C32_LoopStopsWithContext ==
  [][\A l \in Graphs, averageLevel \in Levels :
       (ctxState[l] \in {"closing", "closed"}
          /\ CheckLevels(l, averageLevel)) =>
         /\ l \notin scheduled'
         /\ micGainValue' = micGainValue
         /\ systemGainValue' = systemGainValue]_vars

\* C37: at most one monitoring loop has a callback scheduled.
C37_OneLoopScheduled == Cardinality(scheduled) <= 1

\* C33: when the safety timer or the cancellation poll of an earlier run
\* fires during a later run of the job, the later run is not cancelled, no
\* cancellation callback is invoked and its engine instance is not
\* terminated.
C33_StaleTimersHarmless ==
  [][\A k \in Runs :
       (k < run /\ isProcessing
          /\ (SafetyTimeout(k) \/ CheckCancellation(k))) =>
         /\ isCancelled' = isCancelled
         /\ cbCount' = cbCount
         /\ termCount'[run] = termCount[run]]_vars

\* C34: every job that is Processing is in the factory's set of live jobs,
\* and getActiveJobCount() is at least the number of jobs Processing.
C34_ProcessingJobsTracked ==
  /\ processing \subseteq activeJobs
  /\ getActiveJobCount(Factory) >= Cardinality(processing)

\* ----------------------------------------------------- VideoProcessorService
\* (src/unnamed/part_004).  The service owns one ProcessingJobFactory and one
\* activeJob field; every createMP4Blob call that uses the engine creates its
\* own job and awaits that job's encode().
Processor == [f |-> Factory, activeJob |-> activeJob, lastBlob |-> lastBlob]

ApplyProcessor(p) ==
  /\ created' = p.f.created
  /\ activeJobs' = p.f.activeJobs
  /\ processing' = p.f.processing
  /\ cancelled' = p.f.cancelled
  /\ throwing' = p.f.throwing
  /\ removalTimers' = p.f.removalTimers
  /\ ended' = p.f.ended
  /\ removals' = p.f.removals
  /\ cancelCalls' = p.f.cancelCalls
  /\ activeJob' = p.activeJob
  /\ lastBlob' = p.lastBlob
  /\ UNCHANGED <<encodingVars, mixerVars>>

\* what a rejected encode() can carry
EncodeErrors == {CancelledError, InitError}

\* createMP4Blob up to its await: without the engine it returns the chunks
\* as they are; with it, the new job is stored and its encode() sets
\* isProcessing before the first await
createMP4Blob(p, useFFmpeg, throws) ==
  IF ~useFFmpeg THEN [p EXCEPT !.lastBlob = "native"]
  ELSE LET j == Cardinality(p.f.created) + 1
       IN [p EXCEPT !.f.created = @ \cup {j},
                    !.f.activeJobs = @ \cup {j},
                    !.f.throwing = IF throws THEN @ \cup {j} ELSE @,
                    !.activeJob = j,
                    !.f.processing = @ \cup {j},
                    !.f.cancelled = @ \ {j},
                    !.f.ended = @ \ {j}]

\* the continuation of createMP4Blob after job j's encode() resolved
createMP4BlobResolved(p, j) ==
  [p EXCEPT !.f = jobFinally(p.f, j), !.activeJob = NoJob,
            !.lastBlob = "transcoded"]

\* its catch block after job j's encode() rejected with the given message
createMP4BlobRejected(p, j, message) ==
  [p EXCEPT !.f = jobFinally(IF j \in p.f.cancelled
                             THEN enhancedCancellation(p.f, j)
                             ELSE p.f, j),
            !.activeJob = NoJob,
            !.lastBlob = IF message = CancelledError THEN "cancelled"
                     ELSE "native"]

\* cancelProcessing(): when the job's callback throws, cancel() throws and
\* the field is not cleared
cancelProcessing(p) ==
  IF p.activeJob = NoJob THEN p
  ELSE IF cancelThrows(p.f, p.activeJob)
       THEN [p EXCEPT !.f = jobCancel(p.f, p.activeJob)]
       ELSE [p EXCEPT !.f = jobCancel(p.f, p.activeJob),
                      !.activeJob = NoJob]

\* a download starts
CreateMP4Blob(useFFmpeg, throws) ==
  /\ useFFmpeg => created # Jobs
  /\ ApplyProcessor(createMP4Blob(Processor, useFFmpeg, throws))

\* the run of job j returns a blob
EncodeResolved(j) ==
  /\ j \in processing
  /\ ApplyProcessor(createMP4BlobResolved(Processor, j))

\* the run of job j throws; only a cancelled run throws "Operation cancelled"
EncodeRejected(j, message) ==
  /\ j \in processing
  /\ message = CancelledError => j \in cancelled
  /\ ApplyProcessor(createMP4BlobRejected(Processor, j, message))

CancelProcessing ==
  /\ activeJob # NoJob => removalTimers[activeJob] < MaxCallbacks
  /\ ApplyProcessor(cancelProcessing(Processor))

ProcessorNext ==
  \/ \E useFFmpeg, throws \in BOOLEAN : CreateMP4Blob(useFFmpeg, throws)
  \/ \E j \in Jobs : EncodeResolved(j)
  \/ \E j \in Jobs, message \in EncodeErrors : EncodeRejected(j, message)
  \/ \E j \in Jobs : JobTimeout(j)
  \/ \E j \in Jobs : RemovalTimer(j)
  \/ CancelProcessing

\* Every interleaving of downloads and cancellations on one service.
ProcessorSpec == Init /\ [][ProcessorNext]_vars

\* the jobs cancelProcessing() can still act on: in flight, not cancelled
InFlight == processing \ cancelled

\* C35: every job whose encode() was started by createMP4Blob and is in
\* flight, not yet cancelled, is the job cancelProcessing() would cancel.
C35_InFlightJobReachable == \A j \in InFlight : activeJob = j

====
